---- MODULE Spec2Model ----
(***************************************************************************)
(* Thread synchronisation core of textile-go (TextileNode): the node       *)
(* lifecycle, JoinRoom / LeaveRoom, the receive loop, and the backward     *)
(* chain walk handleRoomUpdate / handleHash over the photo index; the      *)
(* album registry (JoinThread), local publishing (AddPhoto), the           *)
(* republisher, the decrypting gateway with its tokens, GetFile, the       *)
(* identities and keys of the albums, and pairing (WaitForRoom).           *)
(***************************************************************************)
EXTENDS Integers, Sequences, FiniteSets, TLC

(* ------------------------------ bounds -------------------------------- *)
\* length of the hash-linked chain held by the object store
ChainLen == 2
\* number of JoinRoom calls
MaxJoins == 1
\* number of announcements taken by receive loops (one handler goroutine each)
MaxHandlers == 2
\* number of Start calls that create an IPFS node
MaxStarts == 1
\* capacity of the listener channel handed to JoinRoom
DatacCap == 1
\* number of AddPhoto calls that may run at the same time
MaxCallers == 2
\* number of bundles photos.Add stores
MaxPublishes == 2
\* number of GetHashRequest calls
MaxTokens == 2
\* number of requests the gateway answers
MaxRequests == 2
\* number of republish rounds
MaxRounds == 1
\* number of JoinThread calls
MaxJoinThreads == 3
\* number of Start calls that create an IPFS node where restarts are followed
MaxRestarts == 2
\* number of GetFile calls
MaxGetFiles == 2
\* number of JoinRoom calls where a thread is joined again
MaxRejoins == 2
\* number of pairing messages the wait loop takes
MaxPairings == 2

Subs == 1..MaxJoins
RejoinSubs == 1..MaxRejoins
Handlers == 1..MaxHandlers
Rooms == {"room"}
Callers == 1..MaxCallers

(* ------------------------------ strings ------------------------------- *)
\* A string is a sequence of symbols: the separator ":", the word "relay",
\* or a content id (a number 1..ChainLen of the chain).  "" is <<>>.
Colon == 0
RelayWord == 99
Cid(k) == <<k>>
Cids == {Cid(k) : k \in 1..ChainLen}
Genesis == <<>>
Self == <<"self">>
Peer == <<"peer">>
Senders == {Self, Peer}
\* the label of a sender whose payload was framed by a relay
Relayed(from) == <<"relay">> \o from

\* the payload "relay:<content id>"
Relay(c) == <<RelayWord, Colon>> \o c

\* announcement payloads put on the bus
Payloads ==
  Cids \cup {Relay(c) : c \in Cids}
       \cup {Genesis, <<RelayWord>>}

\* strings.Split(s, ":")
RECURSIVE Split(_)
Split(s) ==
  IF \A i \in 1..Len(s) : s[i] # Colon THEN <<s>>
  ELSE LET i == CHOOSE j \in 1..Len(s) :
                  s[j] = Colon /\ \A k \in 1..(j-1) : s[k] # Colon
       IN <<SubSeq(s, 1, i-1)>> \o Split(SubSeq(s, i+1, Len(s)))

IsRelayNever(data) == FALSE

\* the payload is relay framed
IsRelay(data) == Len(Split(data)) > 1 /\ Split(data)[1] = <<RelayWord>>

\* the hash handleRoomUpdate hands to handleHash
ParseHash(data) == IF IsRelay(data) THEN Split(data)[2] ELSE Split(data)[1]

\* coreapi.ParsePath accepts the string
ValidPath(hash) == hash \in Cids

\* the back-pointer stored (encrypted) under <hash>/last
LastOf(hash) == IF hash[1] = 1 THEN Genesis ELSE Cid(hash[1] - 1)

\* the caption stored (encrypted) under <hash>/caption; "" when the bundle
\* has no caption, so that pinning and fetching it fail
CaptionOf(hash) == IF hash[1] % 2 = 0 THEN "cap" ELSE ""

\* the chain from hash back to genesis, newest first
RECURSIVE ChainFrom(_)
ChainFrom(hash) ==
  IF hash \notin Cids THEN {} ELSE {hash} \cup ChainFrom(LastOf(hash))

(* ------------------------------ gateway ------------------------------- *)
\* symbols of URL paths: "/", "ipfs", "thumb"
Slash == 47
IpfsWord == 98
ThumbWord == 97
\* the content id of the n-th bundle photos.Add stores on this node
LocalBase == 10
LocalCid(n) == <<LocalBase + n>>
LocalCids == {LocalCid(n) : n \in 1..MaxPublishes}

\* strings.Split(s, "/")
RECURSIVE SplitPath(_)
SplitPath(s) ==
  IF \A i \in 1..Len(s) : s[i] # Slash THEN <<s>>
  ELSE LET i == CHOOSE j \in 1..Len(s) :
                  s[j] = Slash /\ \A k \in 1..(j-1) : s[k] # Slash
       IN <<SubSeq(s, 1, i-1)>> \o SplitPath(SubSeq(s, i+1, Len(s)))

\* strings.Join(parts, "/")
RECURSIVE JoinPath(_)
JoinPath(parts) ==
  IF Len(parts) = 0 THEN <<>>
  ELSE IF Len(parts) = 1 THEN parts[1]
  ELSE parts[1] \o <<Slash>> \o JoinPath(Tail(parts))

\* "/ipfs/<hash>"
IpfsPath(hash) == <<Slash, IpfsWord, Slash>> \o hash

\* request paths: a bundle, a part of it, a path with no third segment, a
\* hash this node has not indexed
GatewayPaths ==
  { IpfsPath(LocalCid(1)),
    IpfsPath(LocalCid(1)) \o <<Slash, ThumbWord>>,
    <<Slash>> \o LocalCid(1),
    IpfsPath(Cid(1)) }

\* the path has fewer than three segments
BadPath(path) == Len(SplitPath(path)) < 3

\* the key the handler looks the password up under
KeyOfPath(path) == JoinPath(SubSeq(SplitPath(path), 3, Len(SplitPath(path))))

\* the root hash GetFile looks the photo up under
RootOfPath(path) == SplitPath(path)[3]

\* the hashes GetHashRequest is called with
RequestHashes == {LocalCid(1), LocalCid(1) \o <<Slash, ThumbWord>>}

\* the keys of TextileNode.HashPasses
GatewayKeys ==
  RequestHashes \cup {KeyOfPath(p) : p \in {q \in GatewayPaths : ~BadPath(q)}}

(* ------------------------------- state -------------------------------- *)
VARIABLES
  fresh,        \* TextileNode.fresh
  ipfsNode,     \* TextileNode.IpfsNode # nil
  gen,          \* number of IPFS nodes created so far (identifies the node context)
  ctxDone,      \* the context of the current IPFS node has been cancelled
  stopping,     \* Stop holds the lifecycle mutex between its steps
  services,     \* gateways, republishers and relay pingers started so far
  dbOpen,       \* the connection of TextileNode.Datastore is open
  startRet,     \* what the last Start call returned
  stopRet,      \* what the last Stop call returned ("none" while it runs)
  albums,       \* the albums in the datastore: records [id, name]
  photos,       \* the photo index, in insertion order
  pins,         \* pinned paths <<hash, part>>
  leaveRoomChs, \* TextileNode.leaveRoomChs: room -> channel (0 = no entry)
  LeftRoomChs,  \* TextileNode.LeftRoomChs: room -> channel (0 = no entry)
  leaveClosed,  \* leave-request channels that are closed
  leftClosed,   \* left-confirmed channels that are closed
  sub,          \* JoinRoom calls
  hnd,          \* handler goroutines
  panic,        \* the process has died of a runtime panic
  HashPasses,   \* TextileNode.HashPasses: gateway key -> token (0 = no entry)
  tokens,       \* the hash each token ksuid.New() produced was issued for
  gw,           \* the gateway requests answered so far and the last answer
  pub,          \* AddPhoto calls
  stored,       \* the bundles photos.Add has stored: the ciphertext ct, and
                \* the file and the album it was made from
  announced,    \* what has been published on the topics: <<topic, cid>>
  rep,          \* the republish round in progress
  reg,          \* the last JoinThread call and what it returned
  storeUp,      \* the object store answers pins and fetches
  file,         \* the GetFile calls made so far and what the last returned
  wait          \* the WaitForRoom call

vars == <<fresh, ipfsNode, gen, ctxDone, stopping, services, dbOpen,
          startRet, stopRet, albums,
          photos, pins, leaveRoomChs, LeftRoomChs, leaveClosed, leftClosed,
          sub, hnd, panic, HashPasses, tokens, gw, pub, stored, announced,
          rep, reg, storeUp, file, wait>>

nodeVars == <<fresh, ipfsNode, gen, ctxDone, stopping, services, dbOpen,
              startRet, stopRet>>
gateVars == <<HashPasses, tokens, gw>>
pubVars == <<pub, stored, announced>>
\* the variables of the registry, publishing, republishing and gateway calls
ioVars == <<storeUp, file, wait>>
apiVars == <<gateVars, pubVars, rep, reg, ioVars>>
chanVars == <<leaveRoomChs, LeftRoomChs, leaveClosed, leftClosed>>

(* ------------------------------ albums -------------------------------- *)
\* mnemonic phrases handed to JoinThread / RegisterAlbum, "" among them
Phrases == {"", "alpha", "beta"}
\* album names
Names == {"beach", "family"}
\* the phrase createMnemonic draws for the default album
NewMnemonic == "gamma"
\* bip39.NewSeed(mnemonic, ""): the seed of a phrase
NewSeed(mnemonic) ==
  CASE mnemonic = "alpha" -> 1
    [] mnemonic = "beta" -> 2
    [] mnemonic = "gamma" -> 3
    [] OTHER -> 0

identityKeyFromReader(seed) == <<(seed * 7 + 3 + gen) % 16>>

\* the key bytes of the key pair generated from the keyed hash of the seed
identityKeyFromSeed(seed) == <<(seed * 7 + 3) % 16>>

\* peer.IDFromPrivateKey: the peer id of a key pair
IDFromPrivateKey(kb) ==
  CASE kb = <<10>> -> "room"
    [] kb = <<1>> -> "other"
    [] kb = <<8>> -> "default"
    [] OTHER -> "void"
\* the peer id of the key pair derived from the seed of a phrase: the same
\* phrase gives the same id, different phrases give different ids
AlbumId(mnemonic) == IDFromPrivateKey(identityKeyFromSeed(NewSeed(mnemonic)))
\* the album RegisterAlbum builds
AlbumOf(mnemonic, name) ==
  [id |-> AlbumId(mnemonic), name |-> name,
   key |-> identityKeyFromSeed(NewSeed(mnemonic)), mnemonic |-> mnemonic]
\* the album NewNode creates, with the identity of a new random phrase
DefaultAlbum == AlbumOf(NewMnemonic, "default")

(* ------------------------------ cipher -------------------------------- *)
\* bytes are the numbers 0..ByteMod-1
ByteMod == 16
\* the files AddPhoto is handed: empty, one byte, several bytes
FilePayloads == {<<>>, <<7>>, <<7, 15>>}
\* the file of the calls that do not choose one
DefaultFile == <<7>>
\* Key.GetPublic(): the public half of a key pair
GetPublic(kb) == <<(kb[1] * 3) % ByteMod>>

\* encryption under a public key: a key check byte, then the payload
\* shifted by the key
Encrypt(payload, pk) ==
  <<pk[1]>> \o [i \in 1..Len(payload) |-> (payload[i] + pk[1]) % ByteMod]

\* net.Decrypt(key, ciphertext): the payload when the ciphertext was made
\* under the public half of the key, otherwise an error and no bytes
Decrypt(kb, ct) ==
  IF ct = <<>> \/ ct[1] # GetPublic(kb)[1]
    THEN [ok |-> FALSE, bytes |-> <<>>]
    ELSE [ok |-> TRUE,
          bytes |-> [i \in 1..(Len(ct) - 1) |->
                       (ct[i + 1] + ByteMod - ct[1]) % ByteMod]]

\* the key bytes of the identity of the node (Identity.PrivKey of the config)
PeerKey == <<5>>
\* string(p): the phrase a decrypted pairing payload spells
PhraseOf(bytes) ==
  CASE bytes = <<1>> -> "alpha"
    [] bytes = <<2>> -> "beta"
    [] OTHER -> "junk"
\* pairing messages: two phrases encrypted for the node, one for another peer
PairPayloads ==
  {Encrypt(<<1>>, GetPublic(PeerKey)), Encrypt(<<2>>, GetPublic(PeerKey)),
   Encrypt(<<1>>, GetPublic(<<6>>))}

NoSub ==
  [pc |-> "idle", room |-> "room", gen |-> 0, cancelled |-> FALSE,
   loop |-> "none", datac |-> "nil", buf |-> <<>>]

NoServices == [gateway |-> 0, republisher |-> 0, pinger |-> 0]

\* no request answered yet; used holds the <<key, token>> pairs the gateway
\* has accepted
NoAnswer ==
  [n |-> 0, status |-> 0, body |-> <<>>, path |-> <<>>, auth |-> FALSE,
   password |-> 0, used |-> {}]

\* wrote and overlap record the history of a call: it has written its
\* record to the index, and another call was between its read of the latest
\* local record and its index write while this one was
NoPub ==
  [pc |-> "idle", name |-> "beach", aid |-> "", lc |-> Genesis,
   cid |-> Genesis, res |-> "none", wrote |-> FALSE, overlap |-> FALSE]

NoRound ==
  [pc |-> "idle", n |-> 0, todo |-> <<>>, listed |-> {}, sent |-> {},
   failed |-> FALSE]

NoCall == [n |-> 0, mnemonic |-> "", name |-> "beach", res |-> "none",
           before |-> {}]

\* no GetFile call made yet
NoFile == [n |-> 0, path |-> <<>>, album |-> "nil", key |-> <<>>,
           res |-> "none", bytes |-> <<>>]

\* no WaitForRoom call made yet; closed: cancelCh is closed, n: the pairing
\* requests that were decrypted and handed to CreateAlbum
NoWait ==
  [pc |-> "idle", gen |-> 0, loop |-> "none", cancelled |-> FALSE,
   closed |-> FALSE, n |-> 0]

\* head, wrote, late and retrig record the history of a walk: the hash it was
\* started with, the hops it indexed, whether the scope was already cancelled
\* when the call for the current hop was made, and whether an earlier walk had
\* been aborted by a pin or fetch failure when the announcement was taken
NoHnd ==
  [pc |-> "idle", sub |-> 0, aid |-> "room", from |-> Peer, data |-> Genesis,
   hash |-> Genesis, last |-> Genesis, caption |-> "", depth |-> 0,
   res |-> "none", head |-> Genesis, wrote |-> {}, late |-> FALSE,
   retrig |-> FALSE]

\* the node NewNode returns, with room for the JoinRoom calls subs
InitFor(subs) ==
  /\ fresh = TRUE
  /\ ipfsNode = FALSE
  /\ gen = 0
  /\ ctxDone = FALSE
  /\ stopping = FALSE
  /\ services = NoServices
  /\ dbOpen = TRUE
  /\ startRet = "none"
  /\ stopRet = "none"
  /\ albums = {DefaultAlbum}
  /\ photos = <<>>
  /\ pins = {}
  /\ leaveRoomChs = [r \in Rooms |-> 0]
  /\ LeftRoomChs = [r \in Rooms |-> 0]
  /\ leaveClosed = {}
  /\ leftClosed = {}
  /\ sub = [s \in subs |-> NoSub]
  /\ hnd = [h \in Handlers |-> NoHnd]
  /\ panic = "none"
  /\ HashPasses = [k \in GatewayKeys |-> 0]
  /\ tokens = <<>>
  /\ gw = NoAnswer
  /\ pub = [c \in Callers |-> NoPub]
  /\ stored = <<>>
  /\ announced = {}
  /\ rep = NoRound
  /\ reg = NoCall
  /\ storeUp = TRUE
  /\ file = NoFile
  /\ wait = NoWait

Init == InitFor(Subs)

(* ------------------------------ helpers ------------------------------- *)
Online == fresh \/ ipfsNode

Alive == panic = "none"

\* the datastore connection is closed: Stop closed it and no Start has
\* reopened it (touchDB)
DbClosed == ~dbOpen

\* the Done channel of the node context created by the g-th Start is closed
NodeCtxDone(g) == g < gen \/ (g = gen /\ ctxDone)

\* Datastore.Photos().GetPhoto(hash) # nil
GetPhoto(hash) == \E i \in 1..Len(photos) : photos[i].cid = hash

\* Datastore.Albums().GetAlbum(id) finds an album
GetAlbum(id) == \E a \in albums : a.id = id

\* Datastore.Albums().GetAlbumByName(name) finds an album
GetAlbumByName(name) == \E a \in albums : a.name = name

\* Datastore.Albums().Put(album) rejects a name that another identity owns
AlbumsPutConflict(album) ==
  \E b \in albums : b.name = album.name /\ b.id # album.id

\* the albums after Datastore.Albums().Put(album)
AlbumsAfterPut(album) ==
  IF AlbumsPutConflict(album) THEN albums ELSE albums \cup {album}

IndexedCids == {photos[i].cid : i \in 1..Len(photos)}

Die(why) ==
  /\ panic' = why
  /\ UNCHANGED <<nodeVars, albums, photos, pins, chanVars, sub, hnd>>

(* --------------------------- node lifecycle --------------------------- *)
\* Start: ErrNodeRunning on a running node, otherwise a new IPFS node and
\* node context
StartNoRunningCheck ==
  /\ Alive /\ ~stopping
  /\ fresh' = FALSE
  /\ ipfsNode' = TRUE
  /\ gen' = gen + 1
  /\ ctxDone' = FALSE
  /\ dbOpen' = TRUE
  /\ services' = [g \in DOMAIN services |-> services[g] + 1]
  /\ startRet' = "ok"
  /\ UNCHANGED <<stopping, stopRet, albums, photos, pins, chanVars, sub, hnd,
                 panic>>

\* what Start returns: t.fresh is cleared before Online() is asked, so the
\* node is running exactly when the node handle is set
StartReturns == IF ipfsNode THEN "ErrNodeRunning" ELSE "ok"

StartUpTo(max) ==
  /\ Alive /\ ~stopping
  /\ ipfsNode \/ gen < max
  /\ fresh' = FALSE
  /\ startRet' = StartReturns
  /\ IF StartReturns = "ErrNodeRunning"
       THEN UNCHANGED <<ipfsNode, gen, ctxDone, dbOpen, services>>
       ELSE /\ ipfsNode' = TRUE
            /\ gen' = gen + 1
            /\ ctxDone' = FALSE
            /\ dbOpen' = TRUE
            /\ services' = [g \in DOMAIN services |-> services[g] + 1]
  /\ UNCHANGED <<stopping, stopRet, albums, photos, pins, chanVars, sub, hnd,
                 panic>>

Start == StartUpTo(MaxStarts)

\* Start returns the error of touchDB, fsrepo.Open or core.NewNode: the node
\* handle has not been set
StartNodeError ==
  /\ Alive /\ ~stopping
  /\ ~ipfsNode
  /\ fresh' = FALSE
  /\ startRet' = "err_node"
  /\ UNCHANGED <<ipfsNode, gen, ctxDone, stopping, services, dbOpen, stopRet,
                 albums, photos, pins, chanVars, sub, hnd, panic>>

\* Start returns the error of startGateway (no gateway port in the config,
\* no certificate): the IPFS node has been created and the node handle set
StartGatewayError ==
  /\ Alive /\ ~stopping
  /\ ~ipfsNode /\ gen < MaxRestarts
  /\ fresh' = FALSE
  /\ ipfsNode' = TRUE
  /\ gen' = gen + 1
  /\ ctxDone' = FALSE
  /\ dbOpen' = TRUE
  /\ startRet' = "err_gateway"
  /\ UNCHANGED <<stopping, services, stopRet, albums, photos, pins, chanVars,
                 sub, hnd, panic>>

\* Stop on a node that is not online returns ErrNodeNotRunning
StopNotRunning ==
  /\ Alive /\ ~stopping
  /\ ~Online
  /\ stopRet' = "ErrNodeNotRunning"
  /\ UNCHANGED <<fresh, ipfsNode, gen, ctxDone, stopping, services, dbOpen,
                 startRet, albums, photos, pins, chanVars, sub, hnd, panic>>

\* Stop returns the error of GatewayProxy.Shutdown: nothing has been closed
StopGatewayError ==
  /\ Alive /\ ~stopping
  /\ Online /\ ipfsNode
  /\ stopRet' = "err_gateway"
  /\ UNCHANGED <<fresh, ipfsNode, gen, ctxDone, stopping, services, dbOpen,
                 startRet, albums, photos, pins, chanVars, sub, hnd, panic>>

\* Stop up to t.IpfsNode.Close(): the node context is cancelled
StopCancel ==
  /\ Alive /\ ~stopping
  /\ Online
  /\ IF ~ipfsNode
       THEN Die("nil_deref")
       ELSE /\ ctxDone' = TRUE
            /\ stopping' = TRUE
            /\ stopRet' = "none"
            /\ UNCHANGED <<fresh, ipfsNode, gen, services, dbOpen, startRet, albums,
                           photos, pins, chanVars, sub, hnd, panic>>

StopClearKeepNode ==
  /\ Alive /\ stopping
  /\ stopping' = FALSE
  /\ dbOpen' = FALSE
  /\ stopRet' = "ok"
  /\ UNCHANGED <<fresh, ipfsNode, gen, ctxDone, services, startRet, albums,
                 photos, pins, chanVars, sub, hnd, panic>>

\* Stop from the datastore close to the end: the node handle is cleared
StopClear ==
  /\ Alive /\ stopping
  /\ ipfsNode' = FALSE
  /\ stopping' = FALSE
  /\ dbOpen' = FALSE
  /\ stopRet' = "ok"
  /\ UNCHANGED <<fresh, gen, ctxDone, services, startRet, albums, photos,
                 pins, chanVars, sub, hnd, panic>>

\* Stop returns the error of t.IpfsNode.Close(): the node context stays
\* cancelled and the node handle stays set
StopCloseError ==
  /\ Alive /\ stopping
  /\ stopping' = FALSE
  /\ stopRet' = "err_close"
  /\ UNCHANGED <<fresh, ipfsNode, gen, ctxDone, services, dbOpen, startRet,
                 albums, photos, pins, chanVars, sub, hnd, panic>>

\* RegisterAlbum: the album with the identity derived from the phrase is
\* put into the datastore under the name
RegisterAlbum(mnemonic, name) ==
  /\ Alive
  /\ ~DbClosed
  /\ albums' = AlbumsAfterPut(AlbumOf(mnemonic, name))
  /\ UNCHANGED <<nodeVars, photos, pins, chanVars, sub, hnd, panic>>

(* ------------------------- JoinRoom / LeaveRoom ----------------------- *)
\* JoinRoom up to the blocking select: subscribe, create the two channels,
\* start the receive loop
JoinRoom(s, r, dc) ==
  /\ Alive
  /\ sub[s].pc = "idle"
  /\ \A s2 \in Subs : s2 < s => sub[s2].pc # "idle"
  /\ IF ~Online
       THEN /\ sub' = [sub EXCEPT ![s].pc = "returned"]
            /\ UNCHANGED <<nodeVars, albums, photos, pins, chanVars, hnd, panic>>
       ELSE IF ~ipfsNode
       THEN Die("nil_deref")
       ELSE \/ /\ sub' = [sub EXCEPT ![s].pc = "returned"]
               /\ UNCHANGED <<nodeVars, albums, photos, pins, chanVars, hnd,
                              panic>>
            \/ /\ leaveRoomChs' = [leaveRoomChs EXCEPT ![r] = s]
               /\ LeftRoomChs' = [LeftRoomChs EXCEPT ![r] = s]
               /\ sub' = [sub EXCEPT ![s] =
                            [pc |-> "joined", room |-> r, gen |-> gen,
                             cancelled |-> FALSE, loop |-> "running",
                             datac |-> dc, buf |-> <<>>]]
               /\ UNCHANGED <<nodeVars, albums, photos, pins, leaveClosed,
                              leftClosed, hnd, panic>>

\* the select of JoinRoom fires, leave() runs, JoinRoom returns and the
\* deferred close(datac) runs
JoinWake(s) ==
  /\ Alive
  /\ sub[s].pc = "joined"
  /\ s \in leaveClosed \/ NodeCtxDone(sub[s].gen)
  /\ LET c == LeftRoomChs[sub[s].room] IN
     IF c = 0 THEN
       /\ panic' = "close_nil"
       /\ sub' = [sub EXCEPT ![s].cancelled = TRUE]
       /\ UNCHANGED <<nodeVars, albums, photos, pins, chanVars, hnd>>
     ELSE IF c \in leftClosed THEN
       /\ panic' = "close_closed"
       /\ sub' = [sub EXCEPT ![s].cancelled = TRUE]
       /\ UNCHANGED <<nodeVars, albums, photos, pins, chanVars, hnd>>
     ELSE
       /\ leftClosed' = leftClosed \cup {c}
       /\ LeftRoomChs' = [LeftRoomChs EXCEPT ![sub[s].room] = 0]
       /\ leaveRoomChs' = [leaveRoomChs EXCEPT ![sub[s].room] = 0]
       /\ sub' = [sub EXCEPT ![s].cancelled = TRUE,
                             ![s].pc = "returned",
                             ![s].datac = IF @ = "open" THEN "closed" ELSE @]
       /\ UNCHANGED <<nodeVars, albums, photos, pins, leaveClosed, hnd, panic>>

\* LeaveRoom(r)
LeaveRoom(r) ==
  /\ Alive
  /\ IF ~Online \/ leaveRoomChs[r] = 0
       THEN UNCHANGED vars
       ELSE IF leaveRoomChs[r] \in leaveClosed
       THEN Die("close_closed")
       ELSE /\ leaveClosed' = leaveClosed \cup {leaveRoomChs[r]}
            /\ UNCHANGED <<nodeVars, albums, photos, pins, leaveRoomChs,
                           LeftRoomChs, leftClosed, sub, hnd, panic>>

(* ---------------------------- receive loop ---------------------------- *)
RecvMsgUntilFailure(s, h, from, data) ==
  /\ Alive
  /\ sub[s].loop = "running"
  /\ \A h2 \in Handlers :
       hnd[h2].pc = "done" => hnd[h2].res \in {"ok", "none"}
  /\ hnd[h].pc = "idle"
  /\ \A h2 \in Handlers : h2 < h => hnd[h2].pc # "idle"
  /\ hnd' = [hnd EXCEPT ![h] =
               [NoHnd EXCEPT !.pc = "hru", !.sub = s, !.aid = sub[s].room,
                             !.from = from, !.data = data,
                             !.retrig = \E h2 \in Handlers :
                                 /\ hnd[h2].pc = "done"
                                 /\ hnd[h2].res \in {"err_pin", "err_unpack"}]]
  /\ UNCHANGED <<nodeVars, albums, photos, pins, chanVars, sub, panic>>

\* sub.Next returns a message and the loop starts a handler goroutine for it
RecvMsg(s, h, from, data) ==
  /\ Alive
  /\ sub[s].loop = "running"
  /\ hnd[h].pc = "idle"
  /\ \A h2 \in Handlers : h2 < h => hnd[h2].pc # "idle"
  /\ hnd' = [hnd EXCEPT ![h] =
               [NoHnd EXCEPT !.pc = "hru", !.sub = s, !.aid = sub[s].room,
                             !.from = from, !.data = data,
                             !.retrig = \E h2 \in Handlers :
                                 /\ hnd[h2].pc = "done"
                                 /\ hnd[h2].res \in {"err_pin", "err_unpack"}]]
  /\ UNCHANGED <<nodeVars, albums, photos, pins, chanVars, sub, panic>>

LoopExitAnyError(s) ==
  /\ Alive
  /\ sub[s].loop = "running"
  /\ sub' = [sub EXCEPT ![s].loop = "stopped"]
  /\ UNCHANGED <<nodeVars, albums, photos, pins, chanVars, hnd, panic>>

\* sub.Next returns an error (scope cancelled, or the pubsub closed with the
\* node) and the loop returns
LoopExit(s) ==
  /\ Alive
  /\ sub[s].loop = "running"
  /\ sub[s].cancelled \/ NodeCtxDone(sub[s].gen)
  /\ sub' = [sub EXCEPT ![s].loop = "stopped"]
  /\ UNCHANGED <<nodeVars, albums, photos, pins, chanVars, hnd, panic>>

\* the caller's listener takes a notification from the channel
Listen(s) ==
  /\ Alive
  /\ sub[s].buf # <<>>
  /\ sub' = [sub EXCEPT ![s].buf = Tail(@)]
  /\ UNCHANGED <<nodeVars, albums, photos, pins, chanVars, hnd, panic>>

\* the object store stops answering, or answers again
StoreFlip ==
  /\ Alive
  /\ storeUp' = ~storeUp
  /\ UNCHANGED <<nodeVars, albums, photos, pins, chanVars, sub, hnd, panic,
                 gateVars, pubVars, rep, reg, file, wait>>

(* ----------------------------- chain walk ----------------------------- *)
\* the parts of a hop that must be pinned, in the order handleHash pins them
Parts == <<"root", "thumb", "meta", "last">>

\* how many of the required parts are pinned before a pin fails (all of them:
\* no pin fails)
PinOutcomes == {0, 2, Len(Parts)}

\* the handler goroutine returns r
Finish(h, r) ==
  hnd' = [hnd EXCEPT ![h] = [NoHnd EXCEPT !.pc = "done", !.sub = hnd[h].sub,
                                          !.from = hnd[h].from, !.res = r,
                                          !.head = hnd[h].head,
                                          !.wrote = hnd[h].wrote,
                                          !.retrig = hnd[h].retrig]]

\* Datastore.Photos().Put(set) rejects a content id that is already indexed
PutConflict(hash) == GetPhoto(hash)

\* the record handleHash indexes for a hop
RemoteSet(h) ==
  [cid |-> hnd[h].hash, last |-> hnd[h].last, album |-> hnd[h].aid,
   caption |-> hnd[h].caption, local |-> FALSE]

HandleRoomUpdateNoSelfCheck(h) ==
  /\ Alive
  /\ hnd[h].pc = "hru"
  /\ IF ~ipfsNode
       THEN Die("nil_deref")
       ELSE /\ hnd' = [hnd EXCEPT
                        ![h].pc = "hh",
                        ![h].hash = ParseHash(hnd[h].data),
                        ![h].head = ParseHash(hnd[h].data),
                        ![h].from = IF IsRelay(hnd[h].data)
                                      THEN Relayed(@) ELSE @,
                        ![h].data = Genesis]
            /\ UNCHANGED <<nodeVars, albums, photos, pins, chanVars, sub, panic>>

\* handleRoomUpdate up to the call of handleHash
HandleRoomUpdate(h) ==
  /\ Alive
  /\ hnd[h].pc = "hru"
  /\ IF ~ipfsNode
       THEN Die("nil_deref")
       ELSE /\ IF hnd[h].from = Self
                 THEN Finish(h, "ok")
                 ELSE hnd' = [hnd EXCEPT
                        ![h].pc = "hh",
                        ![h].hash = ParseHash(hnd[h].data),
                        ![h].head = ParseHash(hnd[h].data),
                        ![h].from = IF IsRelay(hnd[h].data)
                                      THEN Relayed(@) ELSE @,
                        ![h].data = Genesis]
            /\ UNCHANGED <<nodeVars, albums, photos, pins, chanVars, sub, panic>>

\* handleHash from its entry to the existence check
HandleHash(h) ==
  /\ Alive
  /\ hnd[h].pc = "hh"
  /\ IF DbClosed \/ ~GetAlbum(hnd[h].aid)
       THEN Finish(h, "err_album")
       ELSE IF hnd[h].hash = Genesis \/ GetPhoto(hnd[h].hash)
       THEN Finish(h, "ok")
       ELSE hnd' = [hnd EXCEPT ![h].pc = "fetch", ![h].depth = @ + 1]
  /\ UNCHANGED <<nodeVars, albums, photos, pins, chanVars, sub, panic>>

FetchHopIgnorePinErrors(h) ==
  /\ Alive
  /\ hnd[h].pc = "fetch"
  /\ IF ~ValidPath(hnd[h].hash)
       THEN /\ Finish(h, "err_pin")
            /\ UNCHANGED <<nodeVars, albums, photos, pins, chanVars, sub, panic>>
       ELSE IF ~ipfsNode
       THEN Die("nil_deref")
       ELSE /\ \E k \in PinOutcomes :
                 /\ ctxDone => k = 0
                 /\ ~storeUp =>
                      \A i \in 1..k : <<hnd[h].hash, Parts[i]>> \in pins
                 /\ pins' = pins
                      \cup {<<hnd[h].hash, Parts[i]>> : i \in 1..k}
                      \cup (IF k = Len(Parts) /\ CaptionOf(hnd[h].hash) # ""
                              THEN {<<hnd[h].hash, "caption">>} ELSE {})
                 /\ IF FALSE
                      THEN Finish(h, "err_pin")
                      ELSE \/ Finish(h, "err_unpack")
                           \/ hnd' = [hnd EXCEPT
                                ![h].pc = "put",
                                ![h].last = LastOf(hnd[h].hash),
                                ![h].caption = CaptionOf(hnd[h].hash)]
            /\ UNCHANGED <<nodeVars, albums, photos, chanVars, sub, panic>>

FetchHopCaptionFatal(h) ==
  /\ Alive
  /\ hnd[h].pc = "fetch"
  /\ IF ~ValidPath(hnd[h].hash)
       THEN /\ Finish(h, "err_pin")
            /\ UNCHANGED <<nodeVars, albums, photos, pins, chanVars, sub, panic>>
       ELSE IF ~ipfsNode
       THEN Die("nil_deref")
       ELSE /\ \E k \in PinOutcomes :
                 /\ ctxDone => k = 0
                 /\ ~storeUp =>
                      \A i \in 1..k : <<hnd[h].hash, Parts[i]>> \in pins
                 /\ pins' = pins
                      \cup {<<hnd[h].hash, Parts[i]>> : i \in 1..k}
                      \cup (IF k = Len(Parts) /\ CaptionOf(hnd[h].hash) # ""
                              THEN {<<hnd[h].hash, "caption">>} ELSE {})
                 /\ IF k < Len(Parts) \/ CaptionOf(hnd[h].hash) = ""
                      THEN Finish(h, "err_pin")
                      ELSE \/ Finish(h, "err_unpack")
                           \/ hnd' = [hnd EXCEPT
                                ![h].pc = "put",
                                ![h].last = LastOf(hnd[h].hash),
                                ![h].caption = CaptionOf(hnd[h].hash)]
            /\ UNCHANGED <<nodeVars, albums, photos, chanVars, sub, panic>>

FetchHopNoTimeout(h) ==
  /\ Alive
  /\ storeUp
  /\ hnd[h].pc = "fetch"
  /\ IF ~ValidPath(hnd[h].hash)
       THEN /\ Finish(h, "err_pin")
            /\ UNCHANGED <<nodeVars, albums, photos, pins, chanVars, sub, panic>>
       ELSE IF ~ipfsNode
       THEN Die("nil_deref")
       ELSE /\ \E k \in PinOutcomes :
                 /\ ctxDone => k = 0
                 /\ ~storeUp =>
                      \A i \in 1..k : <<hnd[h].hash, Parts[i]>> \in pins
                 /\ pins' = pins
                      \cup {<<hnd[h].hash, Parts[i]>> : i \in 1..k}
                      \cup (IF k = Len(Parts) /\ CaptionOf(hnd[h].hash) # ""
                              THEN {<<hnd[h].hash, "caption">>} ELSE {})
                 /\ IF k < Len(Parts)
                      THEN Finish(h, "err_pin")
                      ELSE \/ Finish(h, "err_unpack")
                           \/ hnd' = [hnd EXCEPT
                                ![h].pc = "put",
                                ![h].last = LastOf(hnd[h].hash),
                                ![h].caption = CaptionOf(hnd[h].hash)]
            /\ UNCHANGED <<nodeVars, albums, photos, chanVars, sub, panic>>

\* the five pinPath calls of a hop, then GetMetaData, GetLastHash and
\* GetCaption: k of the four required parts are pinned before a pin fails,
\* the caption pin and the caption fetch fail when there is no caption and
\* are ignored.  Every pin and fetch runs under a timeout (pinTimeout,
\* catTimeout): with the object store not answering the call fails for
\* every part that is not on the node already
FetchHop(h) ==
  /\ Alive
  /\ hnd[h].pc = "fetch"
  /\ IF ~ValidPath(hnd[h].hash)
       THEN /\ Finish(h, "err_pin")
            /\ UNCHANGED <<nodeVars, albums, photos, pins, chanVars, sub, panic>>
       ELSE IF ~ipfsNode
       THEN Die("nil_deref")
       ELSE /\ \E k \in PinOutcomes :
                 /\ ctxDone => k = 0
                 /\ ~storeUp =>
                      \A i \in 1..k : <<hnd[h].hash, Parts[i]>> \in pins
                 /\ pins' = pins
                      \cup {<<hnd[h].hash, Parts[i]>> : i \in 1..k}
                      \cup (IF k = Len(Parts) /\ CaptionOf(hnd[h].hash) # ""
                              THEN {<<hnd[h].hash, "caption">>} ELSE {})
                 /\ IF k < Len(Parts)
                      THEN Finish(h, "err_pin")
                      ELSE \/ Finish(h, "err_unpack")
                           \/ hnd' = [hnd EXCEPT
                                ![h].pc = "put",
                                ![h].last = LastOf(hnd[h].hash),
                                ![h].caption = CaptionOf(hnd[h].hash)]
            /\ UNCHANGED <<nodeVars, albums, photos, chanVars, sub, panic>>

IndexPutNotifyLoser(h) ==
  /\ Alive
  /\ hnd[h].pc = "put"
  /\ IF DbClosed
       THEN /\ Finish(h, "err_db")
            /\ UNCHANGED photos
       ELSE IF PutConflict(hnd[h].hash)
       THEN /\ hnd' = [hnd EXCEPT ![h].pc = "notify"]
            /\ UNCHANGED photos
       ELSE /\ photos' = Append(photos, RemoteSet(h))
            /\ hnd' = [hnd EXCEPT ![h].pc = "notify", ![h].caption = "",
                                  ![h].wrote = @ \cup {hnd[h].hash}]
  /\ UNCHANGED <<nodeVars, albums, pins, chanVars, sub, panic>>

\* the index write of a hop
IndexPut(h) ==
  /\ Alive
  /\ hnd[h].pc = "put"
  /\ IF DbClosed
       THEN /\ Finish(h, "err_db")
            /\ UNCHANGED photos
       ELSE IF PutConflict(hnd[h].hash)
       THEN /\ Finish(h, "err_put")
            /\ UNCHANGED photos
       ELSE /\ photos' = Append(photos, RemoteSet(h))
            /\ hnd' = [hnd EXCEPT ![h].pc = "notify", ![h].caption = "",
                                  ![h].wrote = @ \cup {hnd[h].hash}]
  /\ UNCHANGED <<nodeVars, albums, pins, chanVars, sub, panic>>

NotifyNoRecursion(h) ==
  /\ Alive
  /\ hnd[h].pc = "notify"
  /\ LET s == hnd[h].sub IN
     IF sub[s].datac = "closed"
       THEN Die("send_closed")
       ELSE /\ IF sub[s].datac = "open" /\ Len(sub[s].buf) < DatacCap
                 THEN sub' = [sub EXCEPT ![s].buf = Append(@, hnd[h].hash)]
                 ELSE sub' = sub
            /\ Finish(h, "ok")
            /\ UNCHANGED <<nodeVars, albums, photos, pins, chanVars, panic>>

NotifyBlocking(h) ==
  /\ Alive
  /\ hnd[h].pc = "notify"
  /\ LET s == hnd[h].sub IN
     IF sub[s].datac = "closed"
       THEN Die("send_closed")
       ELSE /\ sub[s].datac = "open" /\ Len(sub[s].buf) < DatacCap
            /\ sub' = [sub EXCEPT ![s].buf = Append(@, hnd[h].hash)]
            /\ hnd' = [hnd EXCEPT ![h].pc = "hh", ![h].hash = hnd[h].last,
                                  ![h].last = Genesis,
                                  ![h].late = sub[s].cancelled]
            /\ UNCHANGED <<nodeVars, albums, photos, pins, chanVars, panic>>

\* the select with default that sends the notification, and the recursive
\* call on the back-pointer
Notify(h) ==
  /\ Alive
  /\ hnd[h].pc = "notify"
  /\ LET s == hnd[h].sub IN
     IF sub[s].datac = "closed"
       THEN Die("send_closed")
       ELSE /\ IF sub[s].datac = "open" /\ Len(sub[s].buf) < DatacCap
                 THEN sub' = [sub EXCEPT ![s].buf = Append(@, hnd[h].hash)]
                 ELSE sub' = sub
            /\ hnd' = [hnd EXCEPT ![h].pc = "hh", ![h].hash = hnd[h].last,
                                  ![h].last = Genesis,
                                  ![h].late = sub[s].cancelled]
            /\ UNCHANGED <<nodeVars, albums, photos, pins, chanVars, panic>>

(* ------------------------------ AddPhoto ------------------------------ *)
\* the local records of the album, oldest first
LocalRecordsAnyOrigin(aid) ==
  SelectSeq(photos, LAMBDA r : r.album = aid)

LocalRecords(aid) ==
  SelectSeq(photos, LAMBDA r : r.album = aid /\ r.local)

\* Datastore.Photos().GetPhotos("", 1, "album=<aid> and local=1"): the
\* content id of the most recent local record of the album, "" if none
LatestLocal(aid) ==
  IF Len(LocalRecords(aid)) = 0 THEN Genesis
  ELSE LocalRecords(aid)[Len(LocalRecords(aid))].cid

\* the id of the album with the name
IdByName(name) == (CHOOSE a \in albums : a.name = name).id

\* the record AddPhoto indexes
LocalSet(c) ==
  [cid |-> pub[c].cid, last |-> pub[c].lc, album |-> pub[c].aid,
   caption |-> "", local |-> TRUE]

\* the call is between its read of the latest local record and its index
\* write
InFlight(c) == pub[c].pc \in {"add", "put"}

\* the key of the album with the id
KeyOfAlbum(aid) == (CHOOSE a \in albums : a.id = aid).key

\* the bundle photos.Add stores for the file p
Bundle(c, p) ==
  [ct |-> Encrypt(p, GetPublic(KeyOfAlbum(pub[c].aid))), file |-> p,
   aid |-> pub[c].aid]

\* AddPhoto returns r
Return(c, r) == pub' = [pub EXCEPT ![c].pc = "done", ![c].res = r]

\* AddPhoto from its entry to the read of the latest local record: the
\* node is not online, a file cannot be opened, the album is not found, or
\* the content id of the latest local record is read
AddPhotoRead(c, name) ==
  /\ Alive
  /\ pub[c].pc \in {"idle", "done"}
  /\ Len(stored) + Cardinality({d \in Callers : pub[d].pc = "add"})
       < MaxPublishes
  /\ IF ~Online THEN
       pub' = [pub EXCEPT ![c] = [NoPub EXCEPT !.pc = "done", !.name = name,
                                              !.res = "ErrNodeNotRunning"]]
     ELSE IF DbClosed \/ ~GetAlbumByName(name) THEN
       pub' = [pub EXCEPT ![c] = [NoPub EXCEPT !.pc = "done", !.name = name,
                                              !.res = "err_album"]]
     ELSE
       \/ pub' = [pub EXCEPT ![c] = [NoPub EXCEPT !.pc = "done",
                                       !.name = name, !.res = "err_open"]]
       \/ pub' = [d \in Callers |->
                   IF d = c
                     THEN [NoPub EXCEPT !.pc = "add", !.name = name,
                             !.aid = IdByName(name),
                             !.lc = LatestLocal(IdByName(name)),
                             !.overlap = \E e \in Callers \ {c} : InFlight(e)]
                   ELSE IF InFlight(d) THEN [pub[d] EXCEPT !.overlap = TRUE]
                   ELSE pub[d]]
  /\ UNCHANGED <<nodeVars, albums, photos, pins, chanVars, sub, hnd, panic,
                 gateVars, stored, announced, rep, reg,
                 ioVars>>

AddPhotoIndexFirst(c) ==
  /\ Alive
  /\ pub[c].pc = "add"
  /\ photos' = Append(photos, [LocalSet(c) EXCEPT !.cid = LocalCid(Len(stored) + 1)])
  /\ \/ /\ Return(c, "err_add")
        /\ UNCHANGED stored
     \/ /\ stored' = Append(stored, Bundle(c, DefaultFile))
        /\ pub' = [pub EXCEPT ![c].pc = "publish", ![c].res = "ok",
                              ![c].cid = LocalCid(Len(stored) + 1),
                              ![c].wrote = TRUE]
  /\ UNCHANGED <<nodeVars, albums, pins, chanVars, sub, hnd, panic,
                 gateVars, announced, rep, reg,
                 ioVars>>

\* photos.Add: the bundle is encrypted under the public key of the album,
\* added to the node and pinned
AddPhotoStoreFile(c, p) ==
  /\ Alive
  /\ pub[c].pc = "add"
  /\ IF ~ipfsNode THEN
       /\ panic' = "nil_deref"
       /\ UNCHANGED <<pub, stored>>
     ELSE
       /\ \/ /\ Return(c, "err_add")
             /\ UNCHANGED stored
          \/ /\ stored' = Append(stored, Bundle(c, p))
             /\ pub' = [pub EXCEPT ![c].pc = "put",
                                   ![c].cid = LocalCid(Len(stored) + 1)]
       /\ UNCHANGED panic
  /\ UNCHANGED <<nodeVars, albums, photos, pins, chanVars, sub, hnd,
                 gateVars, announced, rep, reg,
                 ioVars>>

AddPhotoStore(c) == AddPhotoStoreFile(c, DefaultFile)

\* the index write of AddPhoto and its return
AddPhotoIndex(c) ==
  /\ Alive
  /\ pub[c].pc = "put"
  /\ IF DbClosed THEN
       /\ Return(c, "err_db")
       /\ UNCHANGED photos
     ELSE IF PutConflict(pub[c].cid) THEN
       /\ Return(c, "err_put")
       /\ UNCHANGED photos
     ELSE
       /\ photos' = Append(photos, LocalSet(c))
       /\ pub' = [pub EXCEPT ![c].pc = "publish", ![c].res = "ok",
                             ![c].wrote = TRUE]
  /\ UNCHANGED <<nodeVars, albums, pins, chanVars, sub, hnd, panic,
                 gateVars, stored, announced, rep, reg,
                 ioVars>>

\* the goroutine AddPhoto starts before it returns: the content id is
\* published on the topic of the album, or the publish fails and is logged
AddPhotoPublish(c) ==
  /\ Alive
  /\ pub[c].pc = "publish"
  /\ IF ~ipfsNode THEN
       /\ panic' = "nil_deref"
       /\ UNCHANGED <<pub, announced>>
     ELSE
       /\ pub' = [pub EXCEPT ![c].pc = "done"]
       /\ \/ announced' = announced \cup {<<pub[c].aid, pub[c].cid>>}
          \/ UNCHANGED announced
       /\ UNCHANGED panic
  /\ UNCHANGED <<nodeVars, albums, photos, pins, chanVars, sub, hnd,
                 gateVars, stored, rep, reg,
                 ioVars>>

(* ----------------------------- JoinThread ----------------------------- *)
JoinThreadReplace(mnemonic, name) ==
  /\ Alive
  /\ reg.n < MaxJoinThreads
  /\ dbOpen' = TRUE
  /\ IF mnemonic = "" THEN
       /\ reg' = [n |-> reg.n + 1, mnemonic |-> mnemonic, name |-> name,
                  res |-> "err_empty", before |-> albums]
       /\ UNCHANGED albums
     ELSE
       /\ albums' = {b \in albums : b.name # name}
                       \cup {AlbumOf(mnemonic, name)}
       /\ reg' = [n |-> reg.n + 1, mnemonic |-> mnemonic, name |-> name,
                  res |-> "ok", before |-> albums]
  /\ UNCHANGED <<fresh, ipfsNode, gen, ctxDone, stopping, services, startRet,
                 stopRet, photos, pins, chanVars, sub, hnd, panic, gateVars,
                 pubVars, rep,
                 ioVars>>

\* JoinThread: touchDB reopens a closed datastore; an empty phrase is an
\* error; with no album of the name CreateAlbum registers one, with an
\* album of the name RegisterAlbum is called: both end in Albums().Put
JoinThread(mnemonic, name) ==
  /\ Alive
  /\ reg.n < MaxJoinThreads
  /\ dbOpen' = TRUE
  /\ IF mnemonic = "" THEN
       /\ reg' = [n |-> reg.n + 1, mnemonic |-> mnemonic, name |-> name,
                  res |-> "err_empty", before |-> albums]
       /\ UNCHANGED albums
     ELSE IF ~GetAlbumByName(name) THEN
       /\ albums' = AlbumsAfterPut(AlbumOf(mnemonic, name))
       /\ reg' = [n |-> reg.n + 1, mnemonic |-> mnemonic, name |-> name,
                  res |-> "ok", before |-> albums]
     ELSE
       /\ albums' = AlbumsAfterPut(AlbumOf(mnemonic, name))
       /\ reg' = [n |-> reg.n + 1, mnemonic |-> mnemonic, name |-> name,
                  res |-> IF AlbumsPutConflict(AlbumOf(mnemonic, name))
                            THEN "DuplicateName" ELSE "ok",
                  before |-> albums]
  /\ UNCHANGED <<fresh, ipfsNode, gen, ctxDone, stopping, services, startRet,
                 stopRet, photos, pins, chanVars, sub, hnd, panic, gateVars,
                 pubVars, rep,
                 ioVars>>

(* ------------------------------ GetFile ------------------------------- *)
\* the content ids of the bundles photos.Add has stored
StoredCids == {LocalCid(n) : n \in 1..Len(stored)}

\* the file of a bundle a peer has stored, and its ciphertext: the peers
\* encrypt for the thread of the phrase "alpha"
RemoteFile(hash) == <<hash[1]>>
RemoteCipher(hash) ==
  Encrypt(RemoteFile(hash), GetPublic(identityKeyFromSeed(NewSeed("alpha"))))

\* the paths GetFile is called with
FilePaths == {IpfsPath(c) : c \in LocalCids \cup {Cid(1)}}

\* getDataAtPath returns bytes: the bundle is on this node, or the object
\* store answers before the timeout; and the node context is not cancelled
DataAvailable(path) ==
  /\ ~ctxDone
  /\ \/ RootOfPath(path) \in StoredCids
     \/ /\ RootOfPath(path) \in Cids
        /\ storeUp \/ <<RootOfPath(path), "root">> \in pins

\* the bytes getDataAtPath returns
CipherAt(path) ==
  IF RootOfPath(path) \in StoredCids
    THEN stored[RootOfPath(path)[1] - LocalBase].ct
    ELSE RemoteCipher(RootOfPath(path))

\* the album of the indexed photo
AlbumOfPhoto(hash) ==
  photos[CHOOSE i \in 1..Len(photos) : photos[i].cid = hash].album

LookupDefaultKey(hash) == DefaultAlbum.key

\* LoadPhotoAndAlbum: the key of the album the index names for the photo
LookupKey(hash) == KeyOfAlbum(AlbumOfPhoto(hash))

\* GetFile returns r and the bytes b, having used the key kb
FileResult(path, album, kb, r, b) ==
  [n |-> file.n + 1, path |-> path, album |-> album, key |-> kb, res |-> r,
   bytes |-> b]

\* GetFile(path, album), album "nil" for a nil album: the node is not
\* online, the bytes cannot be read, the photo or its album is not found,
\* the key does not decrypt the bytes, or the decrypted bytes
GetFile(path, album) ==
  /\ Alive
  /\ file.n < MaxGetFiles
  /\ IF ~Online THEN
       /\ file' = FileResult(path, album, <<>>, "ErrNodeNotRunning", <<>>)
       /\ UNCHANGED panic
     ELSE IF ~ipfsNode THEN
       /\ panic' = "nil_deref"
       /\ UNCHANGED file
     ELSE
       /\ UNCHANGED panic
       /\ IF ~DataAvailable(path) THEN
            file' = FileResult(path, album, <<>>, "err_get", <<>>)
          ELSE IF album = "nil" /\ (DbClosed \/ ~GetPhoto(RootOfPath(path))) THEN
            file' = FileResult(path, album, <<>>, "err_photo", <<>>)
          ELSE IF album = "nil" /\ ~GetAlbum(AlbumOfPhoto(RootOfPath(path))) THEN
            file' = FileResult(path, album, <<>>, "err_album", <<>>)
          ELSE
            LET kb == IF album = "nil" THEN LookupKey(RootOfPath(path))
                      ELSE KeyOfAlbum(album)
                d == Decrypt(kb, CipherAt(path))
            IN file' = FileResult(path, album, kb,
                                  IF d.ok THEN "ok" ELSE "err_decrypt",
                                  d.bytes)
  /\ UNCHANGED <<nodeVars, albums, photos, pins, chanVars, sub, hnd, gateVars,
                 pubVars, rep, reg, storeUp, wait>>

(* ----------------------------- WaitForRoom ---------------------------- *)
\* WaitForRoom up to the blocking select: subscribe to the own peer id and
\* start the wait loop
WaitForRoom ==
  /\ Alive
  /\ wait.pc = "idle"
  /\ IF ~Online
       THEN /\ wait' = [wait EXCEPT !.pc = "returned"]
            /\ UNCHANGED panic
       ELSE IF ~ipfsNode
       THEN /\ panic' = "nil_deref"
            /\ UNCHANGED wait
       ELSE /\ \/ wait' = [wait EXCEPT !.pc = "returned"]
               \/ wait' = [wait EXCEPT !.pc = "waiting", !.gen = gen,
                                       !.loop = "running"]
            /\ UNCHANGED panic
  /\ UNCHANGED <<nodeVars, albums, photos, pins, chanVars, sub, hnd, gateVars,
                 pubVars, rep, reg, storeUp, file>>

\* the wait loop takes a pairing message: the phrase is decrypted with the
\* key of the node, CreateAlbum registers the album "mobile" (its error is
\* dropped), cancelCh is closed, and the loop goes back to sub.Next
PairRequest(data) ==
  /\ Alive
  /\ wait.loop = "running"
  /\ ~wait.cancelled /\ ~NodeCtxDone(wait.gen)
  /\ wait.n < MaxPairings
  /\ IF ~Online \/ ~Decrypt(PeerKey, data).ok
       THEN /\ wait' = [wait EXCEPT !.loop = "stopped"]
            /\ UNCHANGED <<albums, dbOpen, panic>>
       ELSE /\ albums' = AlbumsAfterPut(
                           AlbumOf(PhraseOf(Decrypt(PeerKey, data).bytes),
                                   "mobile"))
            /\ dbOpen' = TRUE
            /\ IF wait.closed
                 THEN /\ panic' = "close_closed"
                      /\ wait' = [wait EXCEPT !.n = @ + 1]
                 ELSE /\ wait' = [wait EXCEPT !.n = @ + 1, !.closed = TRUE]
                      /\ UNCHANGED panic
  /\ UNCHANGED <<fresh, ipfsNode, gen, ctxDone, stopping, services, startRet,
                 stopRet, photos, pins, chanVars, sub, hnd, gateVars, pubVars,
                 rep, reg, storeUp, file>>

\* the select of WaitForRoom fires: the scope is cancelled and WaitForRoom
\* returns
WaitWake ==
  /\ Alive
  /\ wait.pc = "waiting"
  /\ wait.closed \/ NodeCtxDone(wait.gen)
  /\ wait' = [wait EXCEPT !.pc = "returned", !.cancelled = TRUE]
  /\ UNCHANGED <<nodeVars, albums, photos, pins, chanVars, sub, hnd, panic,
                 gateVars, pubVars, rep, reg, storeUp, file>>

\* sub.Next of the wait loop returns an error (scope cancelled, or the
\* pubsub closed with the node) and the loop returns
WaitLoopExit ==
  /\ Alive
  /\ wait.loop = "running"
  /\ wait.cancelled \/ NodeCtxDone(wait.gen)
  /\ wait' = [wait EXCEPT !.loop = "stopped"]
  /\ UNCHANGED <<nodeVars, albums, photos, pins, chanVars, sub, hnd, panic,
                 gateVars, pubVars, rep, reg, storeUp, file>>

(* ----------------------------- republish ------------------------------ *)
\* the orders in which Datastore.Albums().GetAlbums("") can list the albums
Listings ==
  {q \in [1..Cardinality(albums) -> albums] :
     \A a \in albums : \E i \in 1..Cardinality(albums) : q[i] = a}

\* republishLatestUpdates lists the albums; listed records, for each album
\* listed, the latest local content id it had then
RepublishBegin(q) ==
  /\ Alive
  /\ ipfsNode /\ ~ctxDone
  /\ rep.pc = "idle"
  /\ rep.n < MaxRounds
  /\ rep' = [pc |-> "loop", n |-> rep.n + 1,
             todo |-> IF DbClosed THEN <<>> ELSE q,
             listed |-> IF DbClosed THEN {}
                        ELSE {<<q[i].id, LatestLocal(q[i].id)>> :
                                i \in 1..Len(q)},
             sent |-> {}, failed |-> DbClosed]
  /\ UNCHANGED <<nodeVars, albums, photos, pins, chanVars, sub, hnd, panic,
                 gateVars, pubVars, reg,
                 ioVars>>

\* one pass of the loop of republishLatestUpdates, the publish of its
\* goroutine included: the loop is over, or the album at hand has no local
\* record and the function returns, or its latest local content id is
\* published on its topic (or the publish fails and is logged)
RepublishStep ==
  /\ Alive
  /\ rep.pc = "loop"
  /\ IF rep.todo = <<>> THEN
       /\ rep' = [rep EXCEPT !.pc = "idle"]
       /\ UNCHANGED <<announced, panic>>
     ELSE IF DbClosed THEN
       /\ rep' = [rep EXCEPT !.pc = "idle", !.todo = <<>>, !.failed = TRUE]
       /\ UNCHANGED <<announced, panic>>
     ELSE IF LatestLocal(Head(rep.todo).id) = Genesis THEN
       /\ rep' = [rep EXCEPT !.pc = "idle", !.todo = <<>>]
       /\ UNCHANGED <<announced, panic>>
     ELSE IF ~ipfsNode THEN
       /\ panic' = "nil_deref"
       /\ UNCHANGED <<rep, announced>>
     ELSE
       LET m == <<Head(rep.todo).id, LatestLocal(Head(rep.todo).id)>> IN
       /\ \/ /\ announced' = announced \cup {m}
             /\ rep' = [rep EXCEPT !.todo = Tail(@), !.sent = @ \cup {m}]
          \/ /\ UNCHANGED announced
             /\ rep' = [rep EXCEPT !.todo = Tail(@), !.failed = TRUE]
       /\ UNCHANGED panic
  /\ UNCHANGED <<nodeVars, albums, photos, pins, chanVars, sub, hnd,
                 gateVars, pub, stored, reg,
                 ioVars>>

(* ------------------------------ gateway ------------------------------- *)
StatusOK == 200
StatusBadRequest == 400
StatusUnauthorized == 401

\* the gateway server is listening: Start has started it and Stop has not
\* shut it down
Listening == ipfsNode /\ ~ctxDone /\ ~stopping

GetHashRequestKeepFirst(hash) ==
  /\ Alive
  /\ Len(tokens) < MaxTokens
  /\ tokens' = Append(tokens, hash)
  /\ HashPasses' = [HashPasses EXCEPT
                      ![hash] = IF @ = 0 THEN Len(tokens) + 1 ELSE @]
  /\ UNCHANGED <<nodeVars, albums, photos, pins, chanVars, sub, hnd, panic,
                 gw, pubVars, rep, reg,
                 ioVars>>

\* GetHashRequest: a new token (the next one ksuid.New() produces) is stored
\* under the hash; tokens records which hash each token was issued for
GetHashRequest(hash) ==
  /\ Alive
  /\ Len(tokens) < MaxTokens
  /\ tokens' = Append(tokens, hash)
  /\ HashPasses' = [HashPasses EXCEPT ![hash] = Len(tokens) + 1]
  /\ UNCHANGED <<nodeVars, albums, photos, pins, chanVars, sub, hnd, panic,
                 gw, pubVars, rep, reg,
                 ioVars>>

\* GetFile can return the decrypted bytes of the path: the node is online,
\* the bytes under the path can be read, the root hash is indexed, its
\* album is in the datastore and its key decrypts the bytes
CanGetFile(path) ==
  /\ ~BadPath(path)
  /\ Online /\ ipfsNode /\ ~DbClosed
  /\ DataAvailable(path)
  /\ GetPhoto(RootOfPath(path))
  /\ GetAlbum(AlbumOfPhoto(RootOfPath(path)))
  /\ Decrypt(LookupKey(RootOfPath(path)), CipherAt(path)).ok

\* the decrypted bytes of the path
Plain(path) ==
  IF CanGetFile(path)
    THEN Decrypt(LookupKey(RootOfPath(path)), CipherAt(path)).bytes
    ELSE <<>>

\* the answer of the handler with the given status and body
Answer(auth, password, path, status, body, accepted) ==
  [n |-> gw.n + 1, status |-> status, body |-> body, path |-> path,
   auth |-> auth, password |-> password,
   used |-> IF accepted
              THEN gw.used \cup {<<KeyOfPath(path), password>>}
              ELSE gw.used]

\* the handler of the gateway, GetFile included: no credentials, a path
\* with fewer than three segments, a password that is not the one stored
\* under the key, a failure to fetch or decrypt, or the decrypted bytes
GatewayRequest(auth, password, path) ==
  /\ Alive
  /\ Listening
  /\ gw.n < MaxRequests
  /\ IF ~auth THEN
       gw' = Answer(auth, 0, path, StatusUnauthorized, <<>>, FALSE)
     ELSE IF BadPath(path) THEN
       gw' = Answer(auth, password, path, StatusOK, <<>>, FALSE)
     ELSE IF password # HashPasses[KeyOfPath(path)] THEN
       gw' = Answer(auth, password, path, StatusUnauthorized, <<>>, FALSE)
     ELSE
       \/ gw' = Answer(auth, password, path, StatusBadRequest, <<>>, FALSE)
       \/ /\ CanGetFile(path)
          /\ gw' = Answer(auth, password, path, StatusOK, Plain(path), TRUE)
  /\ UNCHANGED <<nodeVars, albums, photos, pins, chanVars, sub, hnd, panic,
                 HashPasses, tokens, pubVars, rep, reg,
                 ioVars>>

(* --------------------------- specification ---------------------------- *)
Next ==
  \/ (~ipfsNode /\ Start) /\ UNCHANGED apiVars
  \/ StopCancel /\ UNCHANGED apiVars
  \/ StopClear /\ UNCHANGED apiVars
  \/ StopCloseError /\ UNCHANGED apiVars
  \/ RegisterAlbum("alpha", "beach") /\ UNCHANGED apiVars
  \/ \E s \in Subs, r \in Rooms, dc \in {"nil", "open"} :
       JoinRoom(s, r, dc) /\ UNCHANGED apiVars
  \/ \E s \in Subs : JoinWake(s) /\ UNCHANGED apiVars
  \/ \E r \in Rooms : LeaveRoom(r) /\ UNCHANGED apiVars
  \/ \E s \in Subs, h \in Handlers, from \in Senders, data \in Payloads :
       RecvMsg(s, h, from, data) /\ UNCHANGED apiVars
  \/ \E s \in Subs : LoopExit(s) /\ UNCHANGED apiVars
  \/ \E s \in Subs : Listen(s) /\ UNCHANGED apiVars
  \/ \E h \in Handlers : HandleRoomUpdate(h) /\ UNCHANGED apiVars
  \/ \E h \in Handlers : HandleHash(h) /\ UNCHANGED apiVars
  \/ \E h \in Handlers : FetchHop(h) /\ UNCHANGED apiVars
  \/ \E h \in Handlers : IndexPut(h) /\ UNCHANGED apiVars
  \/ \E h \in Handlers : Notify(h) /\ UNCHANGED apiVars

Spec == Init /\ [][Next]_vars

\* the lifecycle calls every specification below shares
Lifecycle ==
  \/ Start /\ UNCHANGED apiVars
  \/ StopCancel /\ UNCHANGED apiVars
  \/ StopClear /\ UNCHANGED apiVars
  \/ StopCloseError /\ UNCHANGED apiVars

\* the gateway and its tokens, over an index filled by AddPhoto
GatewayNext ==
  \/ Lifecycle
  \/ RegisterAlbum("alpha", "beach") /\ UNCHANGED apiVars
  \/ AddPhotoRead(1, "beach")
  \/ AddPhotoStore(1)
  \/ AddPhotoIndex(1)
  \/ AddPhotoPublish(1)
  \/ \E hash \in RequestHashes : GetHashRequest(hash)
  \/ \E auth \in BOOLEAN, password \in 0..MaxTokens, path \in GatewayPaths :
       GatewayRequest(auth, password, path)

GatewaySpec == Init /\ [][GatewayNext]_vars

\* concurrent AddPhoto calls on one thread, with one announcement of the
\* remote chain walked into the same index
PublishNext ==
  \/ Lifecycle
  \/ RegisterAlbum("alpha", "beach") /\ UNCHANGED apiVars
  \/ JoinRoom(1, "room", "nil") /\ UNCHANGED apiVars
  \/ \E c \in Cids : RecvMsg(1, 1, Peer, c) /\ UNCHANGED apiVars
  \/ HandleRoomUpdate(1) /\ UNCHANGED apiVars
  \/ HandleHash(1) /\ UNCHANGED apiVars
  \/ FetchHop(1) /\ UNCHANGED apiVars
  \/ IndexPut(1) /\ UNCHANGED apiVars
  \/ Notify(1) /\ UNCHANGED apiVars
  \/ \E c \in Callers : AddPhotoRead(c, "beach")
  \/ \E c \in Callers : AddPhotoStore(c)
  \/ \E c \in Callers : AddPhotoIndex(c)
  \/ \E c \in Callers : AddPhotoPublish(c)

PublishSpec == Init /\ [][PublishNext]_vars

\* republish rounds over two threads
RepublishNext ==
  \/ Lifecycle
  \/ \E mnemonic \in {"alpha", "beta"}, name \in Names :
       RegisterAlbum(mnemonic, name) /\ UNCHANGED apiVars
  \/ \E name \in Names : AddPhotoRead(1, name)
  \/ AddPhotoStore(1)
  \/ AddPhotoIndex(1)
  \/ AddPhotoPublish(1)
  \/ \E q \in Listings : RepublishBegin(q)
  \/ RepublishStep

RepublishSpec == Init /\ [][RepublishNext]_vars

\* JoinThread calls over a node that is started and stopped
RegistryNext ==
  \/ Lifecycle
  \/ \E mnemonic \in Phrases, name \in Names : JoinThread(mnemonic, name)

RegistrySpec == Init /\ [][RegistryNext]_vars

\* the steps of the handler goroutine h
Walk(h) ==
  (HandleRoomUpdate(h) \/ HandleHash(h) \/ FetchHop(h) \/ IndexPut(h)
     \/ Notify(h)) /\ UNCHANGED apiVars

\* chain walks over an object store that answers or not
WalkNext ==
  \/ Lifecycle
  \/ RegisterAlbum("alpha", "beach") /\ UNCHANGED apiVars
  \/ \E dc \in {"nil", "open"} : JoinRoom(1, "room", dc) /\ UNCHANGED apiVars
  \/ \E h \in Handlers, c \in Cids :
       RecvMsg(1, h, Peer, c) /\ UNCHANGED apiVars
  \/ Listen(1) /\ UNCHANGED apiVars
  \/ \E h \in Handlers : Walk(h)
  \/ StoreFlip

WalkSpec == Init /\ [][WalkNext]_vars

\* a handler goroutine that can take a step is scheduled
WalkLive == WalkSpec /\ \A h \in Handlers : WF_vars(Walk(h))

\* local publishes, republish rounds and the walk of a remote chain over one
\* index
AnnounceNext ==
  \/ Lifecycle
  \/ RegisterAlbum("alpha", "beach") /\ UNCHANGED apiVars
  \/ JoinRoom(1, "room", "nil") /\ UNCHANGED apiVars
  \/ \E c \in Cids : RecvMsg(1, 1, Peer, c) /\ UNCHANGED apiVars
  \/ Walk(1)
  \/ AddPhotoRead(1, "beach")
  \/ AddPhotoStore(1)
  \/ AddPhotoIndex(1)
  \/ AddPhotoPublish(1)
  \/ \E q \in Listings : RepublishBegin(q)
  \/ RepublishStep

AnnounceSpec == Init /\ [][AnnounceNext]_vars

\* files published on two threads and read back with GetFile
CryptoNext ==
  \/ Lifecycle
  \/ RegisterAlbum("alpha", "beach") /\ UNCHANGED apiVars
  \/ RegisterAlbum("beta", "family") /\ UNCHANGED apiVars
  \/ \E name \in Names : AddPhotoRead(1, name)
  \/ \E p \in FilePayloads : AddPhotoStoreFile(1, p)
  \/ AddPhotoIndex(1)
  \/ AddPhotoPublish(1)
  \/ \E path \in FilePaths, album \in {"nil"} \cup {a.id : a \in albums} :
       GetFile(path, album)

CryptoSpec == Init /\ [][CryptoNext]_vars

\* the node started, stopped and started again, with AddPhoto calls in
\* every state of it
StopNext ==
  \/ StartUpTo(MaxRestarts) /\ UNCHANGED apiVars
  \/ StopNotRunning /\ UNCHANGED apiVars
  \/ StopGatewayError /\ UNCHANGED apiVars
  \/ StopCancel /\ UNCHANGED apiVars
  \/ StopClear /\ UNCHANGED apiVars
  \/ StopCloseError /\ UNCHANGED apiVars
  \/ RegisterAlbum("alpha", "beach") /\ UNCHANGED apiVars
  \/ AddPhotoRead(1, "beach")
  \/ AddPhotoStore(1)
  \/ AddPhotoIndex(1)
  \/ AddPhotoPublish(1)

StopSpec == Init /\ [][StopNext]_vars

\* JoinRoom called again on a thread that is joined, with LeaveRoom, the
\* receive loops and one chain walk
RejoinNext ==
  \/ Lifecycle
  \/ RegisterAlbum("alpha", "beach") /\ UNCHANGED apiVars
  \/ \E s \in RejoinSubs : JoinRoom(s, "room", "nil") /\ UNCHANGED apiVars
  \/ \E s \in RejoinSubs : JoinWake(s) /\ UNCHANGED apiVars
  \/ LeaveRoom("room") /\ UNCHANGED apiVars
  \/ \E s \in RejoinSubs, c \in Cids :
       RecvMsg(s, 1, Peer, c) /\ UNCHANGED apiVars
  \/ \E s \in RejoinSubs : LoopExit(s) /\ UNCHANGED apiVars
  \/ Walk(1)

RejoinSpec == InitFor(RejoinSubs) /\ [][RejoinNext]_vars

\* Start calls that fail, with the Stop and AddPhoto calls that follow them
StartNext ==
  \/ StartUpTo(MaxRestarts) /\ UNCHANGED apiVars
  \/ StartNodeError /\ UNCHANGED apiVars
  \/ StartGatewayError /\ UNCHANGED apiVars
  \/ StopNotRunning /\ UNCHANGED apiVars
  \/ StopGatewayError /\ UNCHANGED apiVars
  \/ StopCancel /\ UNCHANGED apiVars
  \/ StopClear /\ UNCHANGED apiVars
  \/ StopCloseError /\ UNCHANGED apiVars
  \/ RegisterAlbum("alpha", "beach") /\ UNCHANGED apiVars
  \/ AddPhotoRead(1, "beach")
  \/ AddPhotoStore(1)
  \/ AddPhotoIndex(1)
  \/ AddPhotoPublish(1)

StartSpec == Init /\ [][StartNext]_vars

\* WaitForRoom with pairing messages arriving at any moment
PairNext ==
  \/ Lifecycle
  \/ RegisterAlbum("beta", "mobile") /\ UNCHANGED apiVars
  \/ WaitForRoom
  \/ \E data \in PairPayloads : PairRequest(data)
  \/ WaitWake
  \/ WaitLoopExit

PairSpec == Init /\ [][PairNext]_vars

(* ------------------------------ properties ---------------------------- *)
\* no handler goroutine is inside handleRoomUpdate / handleHash
NoWalkInProgress == \A h \in Handlers : hnd[h].pc \in {"idle", "done"}

\* the handlers that handed a hash to handleHash
Walked(h) == hnd[h].pc \notin {"idle", "hru"} /\ hnd[h].from # Self

\* the walk of h met no album, pin, fetch or decrypt failure and no closed
\* datastore
NoFailure(h) ==
  hnd[h].res \notin {"err_album", "err_pin", "err_unpack", "err_db"}

\* h is the only announcement the node has processed
Solo(h) == \A h2 \in Handlers : h2 # h => hnd[h2].pc = "idle"

RecordsOf(c) == {i \in 1..Len(photos) : photos[i].cid = c}

\* C1: however often and however concurrently a content id is announced,
\* the index holds at most one record of it, and a handler that lost the
\* race for a hop returns success: it made no index write for that hop and
\* its walk did not end in an error of the index write.
C1_Idempotent ==
  /\ \A c \in Cids : Cardinality(RecordsOf(c)) <= 1
  /\ \A h \in Handlers :
       (hnd[h].pc = "done" /\ Walked(h) /\ NoFailure(h)) => hnd[h].res = "ok"

\* C2: a single announcement of the head of a chain that is not indexed,
\* with every pin, fetch and decryption succeeding, makes the walk index
\* every record of the chain down to genesis as a remote record, and return
\* without error.
C2_ChainTermination ==
  \A h \in Handlers :
    (hnd[h].pc = "done" /\ Walked(h) /\ Solo(h) /\ NoFailure(h)) =>
      /\ hnd[h].res = "ok"
      /\ hnd[h].wrote = ChainFrom(hnd[h].head)
      /\ \A c \in ChainFrom(hnd[h].head) : \E i \in 1..Len(photos) :
           /\ photos[i].cid = c
           /\ photos[i].local = FALSE
           /\ photos[i].last = LastOf(c)
           /\ photos[i].album = hnd[h].aid

C2_Witness ==
  \E h \in Handlers :
    /\ hnd[h].pc = "done" /\ Walked(h) /\ Solo(h) /\ hnd[h].res = "ok"
    /\ hnd[h].head = Cid(ChainLen)
    /\ Len(photos) = ChainLen

\* C3: whenever no chain walk is in progress, every indexed record with a
\* non-empty prev_id has its predecessor in the index.
C3_NoGap ==
  NoWalkInProgress =>
    \A i \in 1..Len(photos) :
      photos[i].last # Genesis => photos[i].last \in IndexedCids

\* C4: after a walk was aborted by a pin or fetch failure, a later
\* announcement whose walk meets no failure and returns success leaves, once
\* no walk is in progress, every hop from its head down to genesis indexed.
C4_Retrigger ==
  NoWalkInProgress =>
    \A h \in Handlers :
      (hnd[h].pc = "done" /\ Walked(h) /\ hnd[h].retrig /\ hnd[h].res = "ok") =>
        ChainFrom(hnd[h].head) \subseteq IndexedCids

\* C5: the step of handleRoomUpdate on an announcement sent by the local
\* identity returns success and changes neither the index, nor the pins, nor
\* the listener channel, whatever the payload.
C5_SelfSuppression ==
  [][\A h \in Handlers :
       (hnd[h].pc = "hru" /\ hnd[h].from = Self /\ hnd'[h] # hnd[h]) =>
         /\ hnd'[h].pc = "done" /\ hnd'[h].res = "ok"
         /\ hnd'[h].wrote = {}
         /\ UNCHANGED <<photos, pins, sub>>]_vars

C5_Witness ==
  \E h \in Handlers, c \in Cids :
    /\ hnd[h].pc = "done" /\ hnd[h].from = Self /\ hnd[h].res = "ok"
    /\ c \notin IndexedCids
    /\ GetAlbum("room")

\* C6: the step of handleRoomUpdate on the payload "relay:X" leaves the
\* handler, the index, the pins and the listener channel exactly as the same
\* step on the bare payload X from the same sender does, but for the label
\* of the sender: handleHash is called with X.
C6_RelayFraming ==
  [][\A h \in Handlers, c \in Cids :
       (/\ hnd[h].pc = "hru" /\ hnd[h].from # Self /\ hnd'[h] # hnd[h]
        /\ hnd[h].data \in {c, Relay(c)}) =>
         /\ hnd'[h] = [hnd[h] EXCEPT !.pc = "hh", !.hash = c, !.head = c,
                                     !.data = Genesis,
                                     !.from = hnd'[h].from]
         /\ hnd'[h].from \in {hnd[h].from, Relayed(hnd[h].from)}
         /\ UNCHANGED <<photos, pins, sub>>]_vars

C6_Witness ==
  \E h \in Handlers :
    /\ hnd[h].from = Relayed(Peer)
    /\ hnd[h].pc = "done" /\ hnd[h].res = "ok"
    /\ hnd[h].head = Cid(ChainLen)
    /\ hnd[h].wrote = ChainFrom(Cid(ChainLen))

\* the listener channel of h's subscription cannot take a notification
NoListener(h) ==
  \/ sub[hnd[h].sub].datac = "nil"
  \/ sub[hnd[h].sub].datac = "open" /\ Len(sub[hnd[h].sub].buf) >= DatacCap

\* C7: the notification send never blocks: with the listener channel nil or
\* full the step is enabled, drops the notification and goes on to the
\* back-pointer of the hop.
C7_NonBlockingNotify ==
  /\ [](\A h \in Handlers :
          (Alive /\ hnd[h].pc = "notify" /\ NoListener(h)) => ENABLED Notify(h))
  /\ [][\A h \in Handlers :
          (hnd[h].pc = "notify" /\ NoListener(h) /\ hnd'[h] # hnd[h]) =>
            /\ hnd'[h].pc = "hh"
            /\ hnd'[h].hash = hnd[h].last
            /\ UNCHANGED <<photos, sub>>]_vars

C7_Witness ==
  \E h \in Handlers :
    /\ hnd[h].pc = "done" /\ hnd[h].res = "ok"
    /\ hnd[h].wrote = ChainFrom(Cid(ChainLen))
    /\ sub[hnd[h].sub].datac = "open"
    /\ sub[hnd[h].sub].buf = <<Cid(ChainLen)>>
    /\ DatacCap < ChainLen

\* the leave-request channel of s is closed, or the node context it waits
\* on is done
LeaveRequested(s) == s \in leaveClosed \/ NodeCtxDone(sub[s].gen)

\* the teardown of s: leave() runs to its end and JoinRoom returns
TearDown(s) ==
  /\ JoinWake(s)
  /\ sub'[s].pc = "returned" /\ sub'[s].cancelled
  /\ s \in leftClosed'
  /\ leaveRoomChs'[sub[s].room] = 0 /\ LeftRoomChs'[sub[s].room] = 0

\* C8: a joined subscription whose leave was requested (LeaveRoom or node
\* shutdown) can always go on to Left: its teardown step is enabled and
\* cancels the scope, closes its left-confirmed channel, removes the entries
\* of the thread and returns from JoinRoom; and a JoinRoom that has returned
\* from a join has cancelled its scope and closed its left-confirmed channel.
C8_LeaveReachesLeft ==
  \A s \in Subs :
    /\ (sub[s].pc = "joined" /\ LeaveRequested(s)) => ENABLED TearDown(s)
    /\ (sub[s].pc = "returned" /\ sub[s].loop # "none") =>
         (sub[s].cancelled /\ s \in leftClosed)

\* C9: from the moment the left-confirmed channel of a subscription is
\* closed, its receive loop takes no further announcement and no walk it
\* started writes a record to the index or sends a notification.
C9_LeftMeansTornDown ==
  [][\A s \in Subs : s \in leftClosed =>
       /\ \A h \in Handlers :
            (hnd[h].pc = "idle" /\ hnd'[h].pc # "idle") => hnd'[h].sub # s
       /\ \A h \in Handlers :
            hnd[h].sub = s => hnd'[h].wrote = hnd[h].wrote
       /\ Len(sub'[s].buf) <= Len(sub[s].buf)]_vars

\* C10: a hop whose handleHash call was made after the scope of the
\* subscription was cancelled is never pinned, fetched or indexed.
C10_NoHopAfterCancel ==
  \A h \in Handlers : hnd[h].late => hnd[h].pc \notin {"fetch", "put", "notify"}

(* ------------------------- gateway properties ------------------------- *)
\* a token has been issued for the key
Issued(key) == \E i \in 1..Len(tokens) : tokens[i] = key

\* the token the most recent GetHashRequest(key) returned
MostRecent(key) ==
  CHOOSE i \in 1..Len(tokens) :
    tokens[i] = key /\ \A j \in (i+1)..Len(tokens) : tokens[j] # key

\* the step is the answer of the gateway to a request with credentials and
\* a path that names a key
AnswersKey == gw'.n = gw.n + 1 /\ gw'.auth /\ ~BadPath(gw'.path)

\* C11: once tokens have been issued for a content id X, a request for X
\* that presents anything but the token of the most recent GetHashRequest(X)
\* (an earlier token for X, a token issued for another content id) is
\* answered unauthorized with no content, and the most recent token passes
\* the password check.
C11_OnlyLatestToken ==
  [][(AnswersKey /\ Issued(KeyOfPath(gw'.path))) =>
       IF gw'.password = MostRecent(KeyOfPath(gw'.path))
         THEN gw'.status # StatusUnauthorized
         ELSE gw'.status = StatusUnauthorized /\ gw'.body = <<>>]_vars

C11_Witness ==
  /\ gw.n = MaxRequests /\ gw.auth /\ ~BadPath(gw.path)
  /\ Len(tokens) > 1
  /\ tokens[1] = KeyOfPath(gw.path) /\ tokens[Len(tokens)] = KeyOfPath(gw.path)
  /\ gw.password = 1
  /\ <<KeyOfPath(gw.path), 1>> \in gw.used
  /\ gw.status = StatusUnauthorized

\* C12: a request for a content id for which no token was ever issued is
\* answered unauthorized, with no decrypted content, whatever password it
\* presents.
C12_UnissuedIsUnauthorized ==
  [][(gw'.n = gw.n + 1 /\ ~BadPath(gw'.path)
        /\ ~Issued(KeyOfPath(gw'.path))) =>
       (gw'.status = StatusUnauthorized /\ gw'.body = <<>>)]_vars

\* C13: a token the gateway has accepted for a content id is rejected as
\* unauthorized when it is presented for that content id again.
C13_SingleUse ==
  [][(/\ AnswersKey
      /\ gw'.password \in 1..Len(tokens)
      /\ <<KeyOfPath(gw'.path), gw'.password>> \in gw.used) =>
       gw'.status = StatusUnauthorized]_vars

\* C14: every answer of the gateway is unauthorized with no content
\* (credentials missing or password not the stored token), bad request with
\* no content (the token matches, fetching or decrypting fails), or success
\* with the decrypted bytes; a malformed path is answered with one of the
\* two errors.
C14_ThreeOutcomes ==
  [][gw'.n = gw.n + 1 =>
       LET matches == /\ gw'.auth /\ ~BadPath(gw'.path)
                      /\ gw'.password = HashPasses[KeyOfPath(gw'.path)]
       IN \/ /\ gw'.status = StatusUnauthorized /\ gw'.body = <<>>
             /\ ~matches
          \/ /\ gw'.status = StatusBadRequest /\ gw'.body = <<>>
             /\ matches \/ BadPath(gw'.path)
          \/ /\ gw'.status = StatusOK /\ gw'.body = Plain(gw'.path)
             /\ matches]_vars

(* ------------------------ republish properties ------------------------ *)
\* C15: a republish round that has ended, with the datastore open and no
\* publish failing, has announced on the topic of every album it listed that
\* had a local record when the round began a content id of that album,
\* whatever the order of the listing and whatever the other albums hold.
C15_RepublishEveryThread ==
  (rep.n > 0 /\ rep.pc = "idle" /\ ~rep.failed) =>
    \A l \in rep.listed :
      l[2] # Genesis => \E m \in rep.sent : m[1] = l[1]

(* ------------------------- AddPhoto properties ------------------------ *)
\* C16: an AddPhoto call that returned an error has written no record to
\* the index and announced nothing, and every local record of the index is
\* the record of a bundle that photos.Add had stored.
C16_NoPartialPublish ==
  /\ \A c \in Callers :
       (pub[c].pc = "done" /\ pub[c].res # "ok") =>
         /\ ~pub[c].wrote
         /\ pub[c].cid # Genesis =>
              /\ ~GetPhoto(pub[c].cid)
              /\ \A m \in announced : m[2] # pub[c].cid
  /\ \A i \in 1..Len(photos) :
       photos[i].local => photos[i].cid \in StoredCids
  /\ \A m \in announced : GetPhoto(m[2])

C16_Witness ==
  \E c \in Callers :
    /\ pub[c].pc = "done" /\ pub[c].res = "err_db"
    /\ pub[c].cid \in StoredCids
    /\ Len(photos) > 0

\* C17: every local record of the index has as prev_id the empty id or the
\* content id of a local record of the same album indexed before it, never
\* that of a remote record; the record a successful AddPhoto writes is
\* local and carries the latest local content id the call read; and a call
\* that overlapped no other call writes a record whose prev_id is the
\* latest local content id of the album at that moment, so that serialized
\* publishes form one chain down to genesis.
C17_LocalChain ==
  /\ [](\A i \in 1..Len(photos) :
          photos[i].local =>
            \/ photos[i].last = Genesis
            \/ \E j \in 1..(i-1) :
                 /\ photos[j].cid = photos[i].last
                 /\ photos[j].local
                 /\ photos[j].album = photos[i].album)
  /\ [][\A c \in Callers :
          (pub[c].pc = "put" /\ pub'[c].pc = "publish") =>
            LET r == photos'[Len(photos')] IN
            /\ Len(photos') = Len(photos) + 1
            /\ r.local /\ r.album = pub[c].aid /\ r.cid = pub[c].cid
            /\ r.last = pub[c].lc
            /\ ~pub[c].overlap => r.last = LatestLocal(r.album)]_vars

C17_Witness ==
  \E i, j, k \in 1..Len(photos) :
    /\ i < j /\ j < k
    /\ photos[i].local /\ ~photos[j].local /\ photos[k].local
    /\ photos[j].album = photos[k].album
    /\ photos[k].last = photos[i].cid
    /\ \A c \in Callers : ~pub[c].overlap

\* C18: no two local records of an album have the same prev_id.
C18_NoPublishRace ==
  \A i, j \in 1..Len(photos) :
    (/\ i # j
     /\ photos[i].local /\ photos[j].local
     /\ photos[i].album = photos[j].album) =>
      photos[i].last # photos[j].last

C20_StartAgain ==
  [][(ipfsNode /\ Start /\ UNCHANGED apiVars) =>
       /\ startRet' = "ErrNodeRunning"
       /\ UNCHANGED <<fresh, ipfsNode, gen, ctxDone, stopping, services,
                      dbOpen, stopRet, albums, photos, pins, chanVars, sub,
                      hnd, panic>>]_vars

C20_Witness ==
  /\ startRet = "ErrNodeRunning"
  /\ ipfsNode /\ ~ctxDone /\ gen = 1
  /\ services = [gateway |-> 1, republisher |-> 1, pinger |-> 1]

\* C21: whenever the last Stop call has returned without error and no
\* Start has succeeded since, the node reports that it is not running:
\* Online() is false, the node handle is cleared; and the step in which Stop
\* returns without error leaves the node not online, on a first run and on
\* a run after a restart.
C21_StoppedIsOffline ==
  /\ []((stopRet = "ok" /\ ctxDone) => (~Online /\ ~ipfsNode))
  /\ [][(stopRet # "ok" /\ stopRet' = "ok") => ~Online']_vars

C21_Witness ==
  /\ stopRet = "ok" /\ ~Online
  /\ gen = MaxRestarts
  /\ startRet = "ok"

\* the first step of a Stop call
StopEntry ==
  (StopNotRunning \/ StopGatewayError \/ StopCancel) /\ UNCHANGED apiVars

\* C22: in every state in which the node handle is not set, never started
\* or stopped, a Stop call and an AddPhoto call return ErrNodeNotRunning and
\* change nothing but what they return.
C22_NotRunning ==
  /\ [][(~ipfsNode /\ StopEntry) =>
          /\ stopRet' = "ErrNodeNotRunning"
          /\ UNCHANGED <<fresh, ipfsNode, gen, ctxDone, stopping, services,
                         dbOpen, startRet, albums, photos, pins, chanVars,
                         sub, hnd, panic>>]_vars
  /\ [][\A c \in Callers :
          (~ipfsNode /\ pub[c].pc \in {"idle", "done"} /\ pub'[c] # pub[c]) =>
            /\ pub'[c].pc = "done" /\ pub'[c].res = "ErrNodeNotRunning"
            /\ UNCHANGED <<nodeVars, albums, photos, pins, chanVars, sub, hnd,
                           panic, gateVars, stored, announced, rep, reg,
                           ioVars>>]_vars

(* ------------------------- cipher properties -------------------------- *)
\* the key pairs of the phrases
KeyPairs == {identityKeyFromSeed(NewSeed(m)) : m \in {"alpha", "beta", "gamma"}}

\* the bundle GetFile has read
BundleOf(path) == stored[RootOfPath(path)[1] - LocalBase]

AllPinned(hash) == \A j \in 1..Len(Parts) : <<hash, Parts[j]>> \in pins

NoCaption(h) == hnd[h].hash \in Cids /\ CaptionOf(hnd[h].hash) = ""

Walking(h) == hnd[h].pc \in {"hru", "hh", "fetch", "put", "notify"}

\* C23: every call of handleHash returns: a handler goroutine that is
\* inside a walk leaves it (with success or an error, or the process dies),
\* whether the object store answers or not.
C23_WalkReturns ==
  \A h \in Handlers : Walking(h) ~> (hnd[h].pc = "done" \/ ~Alive)

C23_Witness ==
  \E h \in Handlers :
    /\ hnd[h].pc = "done" /\ hnd[h].res = "err_pin"
    /\ hnd[h].wrote = {Cid(ChainLen)}
    /\ ~storeUp /\ ipfsNode /\ ~ctxDone

\* the handlers whose goroutine has returned
Returned == {h \in Handlers : hnd[h].pc = "done"}

\* C28: once every walk has returned, none of them stopped by a missing
\* album, a pin, fetch or decrypt failure or a closed datastore, the
\* indexed content ids are the chain from the newest announced content id
\* back to genesis: the union of the chains of the announced ids, whatever
\* the order of arrival and the interleaving of the handlers.
C28_OrderIndependence ==
  (/\ NoWalkInProgress
   /\ \A h \in Returned : hnd[h].res \in {"ok", "err_put"}) =>
    IndexedCids = UNION {ChainFrom(hnd[h].head) : h \in Returned}

C28_Witness ==
  /\ Returned = Handlers
  /\ \E h \in Handlers : hnd[h].head = Cid(1) /\ hnd[h].wrote = {Cid(1)}
  /\ \E h \in Handlers :
       /\ hnd[h].head = Cid(ChainLen) /\ hnd[h].res = "err_put"
       /\ hnd[h].wrote = {Cid(ChainLen)}
  /\ IndexedCids = ChainFrom(Cid(ChainLen))

\* C30: a step that puts a notification for a content id on the listener
\* channel of a subscription is the notification step of a walk of that
\* subscription which has written the record of that id to the index, and
\* the id is not the genesis pointer; the steps in which a walk returns (at
\* genesis, at an indexed id, at a failed pin, fetch or index write) put
\* nothing on a listener channel.
C30_NotifyAfterIndex ==
  /\ [][\A s \in Subs :
          Len(sub'[s].buf) > Len(sub[s].buf) =>
            LET x == sub'[s].buf[Len(sub'[s].buf)] IN
            /\ sub'[s].buf = Append(sub[s].buf, x)
            /\ x # Genesis /\ GetPhoto(x)
            /\ \E h \in Handlers :
                 /\ hnd[h].pc = "notify" /\ hnd'[h].pc = "hh"
                 /\ hnd[h].sub = s /\ hnd[h].hash = x
                 /\ x \in hnd[h].wrote]_vars
  /\ [][\A h \in Handlers :
          (hnd[h].pc # "done" /\ hnd'[h].pc = "done") =>
            \A s \in Subs : sub'[s].buf = sub[s].buf]_vars

C30_Witness ==
  \E h, g \in Handlers :
    /\ hnd[h].pc = "done" /\ hnd[h].wrote = ChainFrom(Cid(ChainLen))
    /\ hnd[g].pc = "done" /\ hnd[g].res = "err_put"
    /\ hnd[g].head = Cid(ChainLen) /\ hnd[g].wrote = {}
    /\ sub[hnd[h].sub].datac = "open"
    /\ sub[hnd[h].sub].buf = <<Cid(1)>>

(* ---------------------- announcement properties ----------------------- *)
\* the index holds a local record of the thread for the content id
LocalRecordOf(topic, cid) ==
  \E i \in 1..Len(photos) :
    photos[i].cid = cid /\ photos[i].album = topic /\ photos[i].local

\* C29: whenever the node announces a content id on a topic, by AddPhoto
\* or by a republish round, the index holds at that moment a local record
\* of that thread for it; no content id of a record obtained by backfill
\* is ever announced.
C29_AnnouncesLocalOnly ==
  /\ [][\A m \in announced' \ announced : LocalRecordOf(m[1], m[2])]_vars
  /\ [](\A m \in announced :
          /\ LocalRecordOf(m[1], m[2])
          /\ \A i \in 1..Len(photos) : ~photos[i].local => photos[i].cid # m[2])

C29_Witness ==
  \E i, j \in 1..Len(photos) :
    /\ i < j
    /\ photos[i].local /\ ~photos[j].local
    /\ photos[i].album = photos[j].album
    /\ rep.pc = "idle" /\ rep.sent = {<<photos[i].album, photos[i].cid>>}
    /\ \E l \in rep.listed : l[1] = photos[j].album
    /\ announced = rep.sent

(* ----------------------- call depth properties ------------------------ *)
\* the activations of handleHash that are live in the goroutine h: depth
\* counts the calls that went past the existence check, each of which stays
\* on the stack while the call it makes on the back-pointer runs
Activations(h) ==
  CASE hnd[h].pc = "hh" -> hnd[h].depth + 1
    [] hnd[h].pc \in {"fetch", "put", "notify"} -> hnd[h].depth
    [] OTHER -> 0

\* C31: at no point of a walk is more than one activation of handleHash
\* live, whatever the length of the chain.
C31_BoundedDepth == \A h \in Handlers : Activations(h) <= 1

(* ----------------------- subscription properties ---------------------- *)
\* the walk of h has returned an error
FailedWalk(h) ==
  /\ hnd[h].pc = "done"
  /\ hnd[h].res \in {"err_album", "err_pin", "err_unpack", "err_put", "err_db"}

\* C32: a walk that returns an error leaves the subscription as it is (the
\* thread joined, the receive loop running, the channels untouched), and
\* after a failed walk a running receive loop still takes the next
\* announcement and starts a handler for it.
C32_FailureKeepsSubscription ==
  /\ [](\A s \in Subs, h \in Handlers :
          (/\ Alive
           /\ \E h2 \in Handlers : FailedWalk(h2)
           /\ sub[s].loop = "running"
           /\ hnd[h].pc = "idle"
           /\ \A h2 \in Handlers : h2 < h => hnd[h2].pc # "idle") =>
            \A c \in Cids : ENABLED RecvMsg(s, h, Peer, c))
  /\ [][\A h \in Handlers :
          (hnd[h].pc # "done" /\ FailedWalk(h)') =>
            UNCHANGED <<sub, chanVars>>]_vars

C32_Witness ==
  \E h, g \in Handlers :
    /\ FailedWalk(h)
    /\ hnd[g].retrig /\ hnd[g].pc = "done" /\ hnd[g].res = "ok"
    /\ hnd[g].wrote # {}
    /\ sub[hnd[g].sub].pc = "joined" /\ sub[hnd[g].sub].loop = "running"

\* C33: LeaveRoom on a thread that is not joined changes nothing, and no
\* LeaveRoom call, however many are made on a joined thread, closes a
\* leave-request channel that is already closed (no call ends in a panic).
C33_LeaveRepeatable ==
  [][\A r \in Rooms :
       (LeaveRoom(r) /\ UNCHANGED apiVars) =>
         /\ panic' = panic
         /\ leaveRoomChs[r] = 0 => UNCHANGED vars]_vars

\* C34: no handler goroutine ever sends a notification on a listener
\* channel that JoinRoom has closed on its return.
C34_NoSendOnClosed == panic # "send_closed"

\* C35: no step of a chain walk dereferences the node handle after Stop has
\* cleared it: a walk that overlaps Stop returns an error or finishes.
C35_NoUseAfterStop ==
  [][\A h \in Handlers : Walk(h) => panic' # "nil_deref"]_vars

LeftAfterJoin(s) ==
  \E s2 \in RejoinSubs :
    s2 >= s /\ s2 \in leaveClosed /\ sub[s2].room = sub[s].room
      /\ sub[s2].pc # "idle"

\* C36: with JoinRoom called on a thread that is already joined, a
\* following LeaveRoom still ends every JoinRoom call in progress (its
\* teardown is enabled), and no left-confirmed channel that is nil is
\* closed.
C36_RejoinLeaves ==
  /\ \A s \in RejoinSubs :
       (Alive /\ sub[s].pc = "joined" /\ LeftAfterJoin(s)) => ENABLED TearDown(s)
  /\ panic # "close_nil"

\* C39: when Start returns an error the node does not report that it is
\* running: a following Start is not rejected with ErrNodeRunning and a
\* following Stop returns ErrNodeNotRunning.
C39_FailedStartNotRunning ==
  [][((StartNodeError \/ StartGatewayError) /\ UNCHANGED apiVars) =>
       /\ StartReturns' # "ErrNodeRunning"
       /\ ~Online']_vars

\* C38: WaitForRoom handles at most one pairing request: once a request
\* has been decrypted and its album registered, no further request is
\* handled and the done channel is not closed a second time.
C38_OnePairing == wait.n <= 1 /\ panic # "close_closed"

====
